---- MODULE Spec2Model ----
(***************************************************************************)
(* Model of compute_plan (src/resin_purchase_planner.py, lines 41-123):    *)
(* the forward-rolling production / resin purchase recurrence.            *)
(*                                                                         *)
(* Numbers.  The program computes in IEEE-754 doubles (Python float and    *)
(* numpy.float64), and so does the model: every sum, product and quotient  *)
(* is rounded to 53 bits as the hardware rounds it, so the residues that   *)
(* rounding leaves (a closing stock of 5.7e-14 where the exact value is 0) *)
(* are the ones the program computes.  NaN is also what pandas stores in   *)
(* an empty price cell.  Integers read from the table or passed as         *)
(* parameters enter the arithmetic converted to doubles, which is exact.   *)
(***************************************************************************)
EXTENDS Integers, Sequences, FiniteSets, TLC

VARIABLES
    df,             \* the schedule: rows [Month, Sales]; its price cells are in row
    row,            \* <<price cells of the row the last iteration read>>, <<>> before
    params,         \* the scalar arguments of compute_plan
    pc,             \* "loop", "returned" or "raised"
    idx,            \* loop index, 0-based
    fg_inv,         \* running finished-goods inventory
    resin_inv,      \* running resin inventory
    blended_price,  \* running moving-average resin price (unrounded)
    results,        \* the list of result rows built so far
    plan,           \* what the call returned, if it returned
    error           \* what the call raised, if it raised

vars == <<df, row, params, pc, idx, fg_inv, resin_inv, blended_price,
          results, plan, error>>

(***************************************************************************)
(* Bound of the model: the longest schedule (number of rows of df).        *)
(***************************************************************************)
MaxPeriods == 2

----------------------------------------------------------------------------
(* IEEE-754 binary64 arithmetic, round to nearest, ties to even: the        *)
(* arithmetic of Python's float and of numpy.float64.                       *)
(*                                                                          *)
(* A number is <<s, e, hi, lo>>.  With m = hi * 2^28 + lo (m < 2^53) a      *)
(* finite number is (-1)^s * m * 2^e, where EMin <= e <= EMax and           *)
(* m >= 2^52 unless e = EMin (subnormal numbers; the zeros are              *)
(* <<s, EMin, 0, 0>>).  e = ESpecial marks the infinities (m = 0) and the   *)
(* NaN (m # 0).  A multi-word natural number is a sequence of 28-bit words, *)
(* least significant first.                                                 *)

W == 268435456
H == 16384
WordBits == 28
MantBits == 53
EMin == -1074
EMax == 971
ESpecial == 972

PosZero == <<0, EMin, 0, 0>>
NaN == <<0, ESpecial, 1, 0>>
Inf(s) == <<s, ESpecial, 0, 0>>

IsNaN(x) == x[2] = ESpecial /\ (x[3] # 0 \/ x[4] # 0)
IsInf(x) == x[2] = ESpecial /\ x[3] = 0 /\ x[4] = 0
IsFinite(x) == x[2] # ESpecial
IsZero(x) == x[2] # ESpecial /\ x[3] = 0 /\ x[4] = 0
Mant(x) == <<x[4], x[3]>>
Xor(s, t) == IF s = t THEN 0 ELSE 1

Word(P, i) == IF i >= 1 /\ i <= Len(P) THEN P[i] ELSE 0

(* The number of bits of the word x, known to lie in lo .. hi.               *)
RECURSIVE BitLenIn(_, _, _)
BitLenIn(x, lo, hi) ==
    IF lo = hi THEN lo
    ELSE IF x < 2^((lo + hi) \div 2) THEN BitLenIn(x, lo, (lo + hi) \div 2)
    ELSE BitLenIn(x, ((lo + hi) \div 2) + 1, hi)

BitLenW(x) == BitLenIn(x, 0, WordBits + 1)

RECURSIVE TopWord(_, _)
TopWord(P, i) == IF i = 0 THEN 0 ELSE IF P[i] # 0 THEN i ELSE TopWord(P, i - 1)

BitLenAt(P, j) == IF j = 0 THEN 0 ELSE WordBits * (j - 1) + BitLenW(P[j])

BitLen(P) == BitLenAt(P, TopWord(P, Len(P)))

(* Bits from .. from+27 of P as one word; bits below 0 are 0.              *)
ExtractAt(P, i, o) ==
    IF o = 0 THEN Word(P, i + 1)
    ELSE (Word(P, i + 1) \div 2^o) + (Word(P, i + 2) % 2^o) * 2^(WordBits - o)

Extract(P, from) == ExtractAt(P, from \div WordBits, from % WordBits)

Bit(P, k) == (Word(P, (k \div WordBits) + 1) \div 2^(k % WordBits)) % 2

(* Some bit of P below bit n is set.                                        *)
LowNonZero(P, n) ==
    \/ \E j \in 1..Len(P) : j <= n \div WordBits /\ P[j] # 0
    \/ Word(P, (n \div WordBits) + 1) % 2^(n % WordBits) # 0

(* X + sg * Y for four-word X, Y (sg = 1, or sg = -1 and X >= Y).           *)
RECURSIVE Carry(_, _, _, _, _)
Carry(X, Y, sg, j, c) ==
    IF j > 4 THEN <<>>
    ELSE <<(X[j] + sg * Y[j] + c) % W>>
         \o Carry(X, Y, sg, j + 1, (X[j] + sg * Y[j] + c) \div W)

Combine(X, Y, sg) == Carry(X, Y, sg, 1, 0)

(* X < Y for four-word X, Y.                                                *)
Less(X, Y) ==
    \/ X[4] < Y[4]
    \/ X[4] = Y[4] /\ X[3] < Y[3]
    \/ X[4] = Y[4] /\ X[3] = Y[3] /\ X[2] < Y[2]
    \/ X[4] = Y[4] /\ X[3] = Y[3] /\ X[2] = Y[2] /\ X[1] < Y[1]

(* Product of two words, as <<low word, high word>>.                        *)
MulParts(a0, a1, b0, b1, mid, los) ==
    <<los % W, a1 * b1 + (mid \div H) + (los \div W)>>

MulHalves(a0, a1, b0, b1, mid) ==
    MulParts(a0, a1, b0, b1, mid, a0 * b0 + (mid % H) * H)

MulWW(a, b) ==
    MulHalves(a % H, a \div H, b % H, b \div H,
              (a % H) * (b \div H) + (a \div H) * (b % H))

(* Product of the mantissas of x and y, four words.                         *)
MulSum(ll, hh, t1, t2) == <<ll[1], t1 % W, t2 % W, hh[2] + (t2 \div W)>>

MulCross(ll, lh, hl, hh, t1) ==
    MulSum(ll, hh, t1, lh[2] + hl[2] + hh[1] + (t1 \div W))

MulWords(ll, lh, hl, hh) == MulCross(ll, lh, hl, hh, ll[2] + lh[1] + hl[1])

MulMant(x, y) ==
    MulWords(MulWW(x[4], y[4]), MulWW(x[4], y[3]),
             MulWW(x[3], y[4]), MulWW(x[3], y[3]))

(* The number nearest to (-1)^s * P * 2^e among the multiples of 2^emin     *)
(* with at most 53 significant bits, ties to the even mantissa; overflow    *)
(* gives an infinity.                                                       *)
(* The stages of Pack, each taking what the stages before it found: L the   *)
(* bit length of P, t the exponent of the result's last place, sh = t - e  *)
(* the bits dropped, <<hi, lo>> the bits kept, up whether to round up.     *)
PackOut(s, t, L, lo1, hi1) ==
    IF L = 0 THEN <<s, EMin, 0, 0>>
    ELSE IF hi1 = 2^(MantBits - WordBits)
         THEN IF t + 1 > EMax THEN Inf(s) ELSE <<s, t + 1, hi1 \div 2, 0>>
    ELSE IF t > EMax THEN Inf(s)
    ELSE <<s, t, hi1, lo1>>

PackUp(s, t, L, lo, hi, up) ==
    PackOut(s, t, L, IF up THEN (lo + 1) % W ELSE lo,
            IF up /\ lo + 1 = W THEN hi + 1 ELSE hi)

PackKept(s, t, P, L, sh, lo, hi) ==
    PackUp(s, t, L, lo, hi,
           /\ sh > 0
           /\ Bit(P, sh - 1) = 1
           /\ (lo % 2 = 1 \/ LowNonZero(P, sh - 1)))

PackAt(s, e, P, L, t) ==
    PackKept(s, t, P, L, t - e, Extract(P, t - e), Extract(P, t - e + WordBits))

PackLen(s, e, P, emin, L) ==
    PackAt(s, e, P, L,
           IF e + L - MantBits > emin THEN e + L - MantBits ELSE emin)

Pack(s, e, P, emin) == PackLen(s, e, P, emin, BitLen(P))

Round53(s, e, P) == Pack(s, e, P, EMin)

(* float(n) of an int n: the magnitude is split into 28-bit words and       *)
(* rounded to 53 bits, which also puts the result in normal form.          *)
FromMagnitude(s, a) == Round53(s, 0, <<a % W, a \div W>>)

FromInt(n) == FromMagnitude(IF n < 0 THEN 1 ELSE 0, IF n < 0 THEN 0 - n ELSE n)

FNeg(x) == <<1 - x[1], x[2], x[3], x[4]>>

(* x + y for finite non-zero x, y with x[2] >= y[2].                        *)
(* X, Y are the mantissas of x and y in units of 2^y[2], four words each:  *)
(* the sum when the signs agree, else the larger minus the smaller with    *)
(* the sign of the larger, +0.0 when they cancel.                          *)
AddAligned(x, y, X, Y) ==
    IF x[1] = y[1] THEN Round53(x[1], y[2], Combine(X, Y, 1))
    ELSE Round53(IF Less(Y, X) THEN x[1] ELSE IF Less(X, Y) THEN y[1] ELSE 0,
                 y[2],
                 IF Less(Y, X) THEN Combine(X, Y, -1) ELSE Combine(Y, X, -1))

AddOrdered(x, y) ==
    IF x[2] - y[2] > MantBits + 3 THEN x
    ELSE AddAligned(x, y,
                    [j \in 1..4 |->
                        Extract(Mant(x), WordBits * (j - 1) - (x[2] - y[2]))],
                    <<y[4], y[3], 0, 0>>)

FAdd(x, y) ==
    IF IsNaN(x) \/ IsNaN(y) THEN NaN
    ELSE IF IsInf(x) THEN (IF IsInf(y) /\ x[1] # y[1] THEN NaN ELSE x)
    ELSE IF IsInf(y) THEN y
    ELSE IF IsZero(x) /\ IsZero(y) THEN (IF x[1] = y[1] THEN x ELSE PosZero)
    ELSE IF IsZero(x) THEN y
    ELSE IF IsZero(y) THEN x
    ELSE AddOrdered(IF x[2] >= y[2] THEN x ELSE y,
                    IF x[2] >= y[2] THEN y ELSE x)

FSub(x, y) == FAdd(x, FNeg(y))

FMul(x, y) ==
    IF IsNaN(x) \/ IsNaN(y) THEN NaN
    ELSE IF IsInf(x) \/ IsInf(y)
         THEN (IF IsZero(x) \/ IsZero(y) THEN NaN ELSE Inf(Xor(x[1], y[1])))
    ELSE Round53(Xor(x[1], y[1]), x[2] + y[2], MulMant(x, y))

(* The mantissa of a finite non-zero x shifted up to 53 bits, with the      *)
(* exponent that keeps the value: <<e, hi, lo>>.                            *)
NormalBy(x, k) ==
    <<x[2] - k, Extract(Mant(x), WordBits - k), Extract(Mant(x), 0 - k)>>

Normal(x) == NormalBy(x, MantBits - BitLen(Mant(x)))

(* n steps of binary long division by <<bh, bl>>: <<rh, rl>> is the        *)
(* remainder (two words) and q the quotient bits found so far.  A step     *)
(* doubles the remainder (DivLoop) and takes the divisor out of it when it *)
(* is at least the divisor (DivTry).                                       *)
RECURSIVE DivLoop(_, _, _, _, _, _)
RECURSIVE DivTry(_, _, _, _, _, _)
DivTry(h, l, q, bh, bl, n) ==
    IF h > bh \/ (h = bh /\ l >= bl)
    THEN DivLoop(h - bh - (IF l < bl THEN 1 ELSE 0), (l - bl) % W, q + 1,
                 bh, bl, n)
    ELSE DivLoop(h, l, q, bh, bl, n)

DivLoop(rh, rl, q, bh, bl, n) ==
    IF n = 0 THEN <<rh, rl, q>>
    ELSE DivTry(2 * rh + ((2 * rl) \div W), (2 * rl) % W, 2 * q, bh, bl,
                n - 1)

(* x / y for finite non-zero x, y: 56 quotient bits and a sticky bit for    *)
(* the remainder, then rounded.                                             *)
(* The stages of the division of the normalised a by b: s1 after the first *)
(* 28 quotient bits, s2 after the next 28, p1 and p2 the quotient words    *)
(* with the sticky bit.                                                    *)
DivOut(s, a, b, p1, p2) ==
    Round53(s, a[1] - b[1] - 2 * WordBits, <<p1 % W, p2 % W, p2 \div W>>)

DivWords(s, a, b, s1, p1) == DivOut(s, a, b, p1, 2 * s1[3] + (p1 \div W))

DivLow(s, a, b, s1, s2) ==
    DivWords(s, a, b, s1,
             2 * s2[3] + (IF s2[1] # 0 \/ s2[2] # 0 THEN 1 ELSE 0))

DivHigh(s, a, b, s1) ==
    DivLow(s, a, b, s1, DivLoop(s1[1], s1[2], 0, b[2], b[3], WordBits))

DivNormal(s, a, b) ==
    DivHigh(s, a, b, DivTry(a[2], a[3], 0, b[2], b[3], WordBits - 1))

DivFinite(x, y) == DivNormal(Xor(x[1], y[1]), Normal(x), Normal(y))

(* numpy float64 true division: x/0 is inf, -inf or nan (with a warning),   *)
(* never an exception.                                                      *)
FDiv(x, y) ==
    IF IsNaN(x) \/ IsNaN(y) THEN NaN
    ELSE IF IsInf(x) THEN (IF IsInf(y) THEN NaN ELSE Inf(Xor(x[1], y[1])))
    ELSE IF IsInf(y) THEN <<Xor(x[1], y[1]), EMin, 0, 0>>
    ELSE IF IsZero(y) THEN (IF IsZero(x) THEN NaN ELSE Inf(Xor(x[1], y[1])))
    ELSE IF IsZero(x) THEN <<Xor(x[1], y[1]), EMin, 0, 0>>
    ELSE DivFinite(x, y)

(* x < y, false when either is the NaN.                                     *)
Bigger(u, v) == \/ u[2] > v[2]
                \/ u[2] = v[2] /\ u[3] > v[3]
                \/ u[2] = v[2] /\ u[3] = v[3] /\ u[4] > v[4]

FLt(x, y) ==
    /\ ~IsNaN(x)
    /\ ~IsNaN(y)
    /\ ~(IsZero(x) /\ IsZero(y))
    /\ IF x[1] # y[1] THEN x[1] = 1
       ELSE Bigger(IF x[1] = 0 THEN y ELSE x, IF x[1] = 0 THEN x ELSE y)

FEq(x, y) == /\ ~IsNaN(x)
             /\ ~IsNaN(y)
             /\ (x = y \/ (IsZero(x) /\ IsZero(y)))

FLeq(x, y) == FLt(x, y) \/ FEq(x, y)

(* Python max(0.0, x): x when x > 0.0, else the first argument 0.0.         *)
Max0(x) == IF FLt(PosZero, x) THEN x ELSE PosZero

(* Python truthiness of a number: `x if y else z` takes x unless y == 0.    *)
Truthy(x) == ~IsZero(x)

(* numpy rint: the nearest integer, ties to even.                           *)
Rint(x) ==
    IF ~IsFinite(x) \/ x[2] >= 0 THEN x
    ELSE Round53(x[1], 0, Mant(Pack(x[1], x[2], Mant(x), 0)))

(* round(x, ndigits) of a numpy.float64, scale = 10^ndigits:                *)
(* rint(x * scale) / scale.                                                 *)
Round(x, scale) == FDiv(Rint(FMul(x, FromInt(scale))), FromInt(scale))

(* The double nearest to the decimal n / d: what a literal such as 0.725   *)
(* (n = 725, d = 1000) denotes.                                            *)
Decimal(n, d) == FDiv(FromInt(n), FromInt(d))

----------------------------------------------------------------------------
(* Inputs of one call of compute_plan.                                     *)

Suppliers == <<"Local", "TPE", "China/Korea">>

Months == <<"Jan-2026", "Feb-2026", "Mar-2026", "Apr-2026", "May-2026",
            "Jun-2026", "Jul-2026", "Aug-2026", "Sep-2026", "Oct-2026",
            "Nov-2026", "Dec-2026">>

SalesValues == {FromInt(0), FromInt(800), FromInt(850)}

(* The price each supplier quotes when it quotes: Local is dearer, TPE and  *)
(* China/Korea tie.                                                        *)
Quotes ==
    [c \in {Suppliers[i] : i \in 1..Len(Suppliers)} |->
        IF c = "Local" THEN FromInt(700) ELSE FromInt(690)]

(* The three price cells of one row of df: each supplier's quote, or NaN   *)
(* for an empty cell.                                                      *)
PriceRows ==
    { [c \in DOMAIN Quotes |-> IF c \in quoting THEN Quotes[c] ELSE NaN] :
        quoting \in SUBSET DOMAIN Quotes }

(* Schedules: 0..MaxPeriods rows, labelled in order, any sales plan.       *)
Schedules ==
    UNION { { [i \in 1..n |-> [Month |-> Months[i], Sales |-> f[i]]] :
                f \in [1..n -> SalesValues] } : n \in 0..MaxPeriods }

(* The defaults of the command line, lines 224-234.                        *)
BaseParams ==
    [fg_open |-> FromInt(465), resin_open |-> FromInt(132),
     resin_blended_open |-> FromInt(694),
     fg_target_days |-> 15, resin_target_days |-> 5, prod_days |-> 25,
     usage_ratio |-> Decimal(725, 1000)]

(* Parameter sets the sidebar (lines 145-155) admits.                       *)
ValidParamSets ==
    { BaseParams,
      [BaseParams EXCEPT !.usage_ratio = FromInt(0)],
      [BaseParams EXCEPT !.resin_open = Decimal(507, 10),
                         !.fg_target_days = 7,
                         !.usage_ratio = Decimal(7, 10)],
      [BaseParams EXCEPT !.fg_open = FromInt(1000),
                         !.resin_blended_open = Decimal(1015, 1000),
                         !.fg_target_days = 7,
                         !.resin_target_days = 3,
                         !.prod_days = 30,
                         !.usage_ratio = Decimal(7, 10)] }

(* Parameter sets with one misconfigured field; the command line (lines    *)
(* 223-234) passes them to compute_plan unchanged.                         *)
InvalidParamSets ==
    { [BaseParams EXCEPT !.resin_open = FromInt(-10)],
      [BaseParams EXCEPT !.prod_days = 0] }

ParamSets == ValidParamSets \cup InvalidParamSets

(* The configuration the sidebar's number inputs admit, lines 145-155:     *)
(* each parameter lies between the minimum and the maximum of its input.   *)
ValidParams ==
    /\ FLeq(PosZero, params.fg_open)
    /\ FLeq(params.fg_open, FromInt(20000))
    /\ FLeq(PosZero, params.resin_open)
    /\ FLeq(params.resin_open, FromInt(20000))
    /\ FLeq(PosZero, params.resin_blended_open)
    /\ FLeq(params.resin_blended_open, FromInt(2000))
    /\ params.fg_target_days >= 0 /\ params.fg_target_days <= 60
    /\ params.resin_target_days >= 0 /\ params.resin_target_days <= 30
    /\ params.prod_days >= 15 /\ params.prod_days <= 31
    /\ FLeq(PosZero, params.usage_ratio)
    /\ FLeq(params.usage_ratio, FromInt(1))

----------------------------------------------------------------------------
(* The statements of the loop body, lines 59-121, one operator per         *)
(* assignment, each a function of the values the statement reads.  idx is  *)
(* 0-based as in the code; df is a 1-based sequence, so df.loc[idx] is     *)
(* df[idx + 1].                                                            *)

(* Variant: the label is taken from the look-ahead row.                    *)
Month_LookAhead(d, i) == d[IF i + 1 < Len(d) THEN i + 2 ELSE i + 1].Month

Month(d, i) == d[i + 1].Month
Sales(d, i) == d[i + 1].Sales

(* Variant: no look-ahead, the target is sized against the period itself.  *)
NextSales_Own(d, i) == d[i + 1].Sales

NextSales(d, i) == IF i + 1 < Len(d) THEN d[i + 2].Sales ELSE Sales(d, i)

(* fg_target_days / prod_days is the true division of two Python ints: the *)
(* double nearest to the quotient (prod_days # 0 here).                    *)
FgTargetClose(fg_target_days, prod_days, next_sales) ==
    FMul(FDiv(FromInt(fg_target_days), FromInt(prod_days)), next_sales)

(* Variant: the max(0.0, ...) clamp is missing.                            *)
Production_NoClamp(sales, fg_target_close, fg) ==
    FSub(FAdd(sales, fg_target_close), fg)

Production(sales, fg_target_close, fg) ==
    Max0(FSub(FAdd(sales, fg_target_close), fg))

ResinUsage(production, usage_ratio) == FMul(production, usage_ratio)

NextProdEst(d, i, production) ==
    IF i + 1 < Len(d) THEN d[i + 2].Sales ELSE production

ResinTargetClose(resin_target_days, prod_days, next_prod_est, usage_ratio) ==
    FMul(FMul(FDiv(FromInt(resin_target_days), FromInt(prod_days)),
              next_prod_est),
         usage_ratio)

(* [c for c in ["Local", "TPE", "China/Korea"] if pd.notna(df.loc[idx, c])] *)
PriceCols(r) == SelectSeq(Suppliers, LAMBDA c : ~IsNaN(r[c]))

(* Variant: among equal minima the last key wins.                          *)
CheapestSrc_LastMin(r) ==
    LET cols == SelectSeq(Suppliers, LAMBDA c : ~IsNaN(r[c]))
        k == CHOOSE i \in 1..Len(cols) :
                /\ \A j \in 1..Len(cols) : ~FLt(r[cols[j]], r[cols[i]])
                /\ \A j \in (i + 1)..Len(cols) : FLt(r[cols[i]], r[cols[j]])
    IN  cols[k]

(* min(prices, key=prices.get): the first key, in insertion order, whose   *)
(* value no other key's value is below.                                    *)
CheapestSrc(r) ==
    LET cols == PriceCols(r)
        k == CHOOSE i \in 1..Len(cols) :
                /\ \A j \in 1..Len(cols) : ~FLt(r[cols[j]], r[cols[i]])
                /\ \A j \in 1..(i - 1) : FLt(r[cols[i]], r[cols[j]])
    IN  cols[k]

CheapestPrice(r, cheapest_src) == r[cheapest_src]

PurchaseQty(resin_usage, resin_target_close, resin) ==
    Max0(FSub(FAdd(resin_usage, resin_target_close), resin))

PurchaseCost(purchase_qty, cheapest_price) == FMul(purchase_qty, cheapest_price)

TotalCost(resin, blended, purchase_cost) ==
    FAdd(FMul(resin, blended), purchase_cost)

(* Variant: the period's usage is not taken out of the closing stock.      *)
ClosingResinInv_NoUsage(resin, purchase_qty, resin_usage) ==
    FAdd(resin, purchase_qty)

ClosingResinInv(resin, purchase_qty, resin_usage) ==
    FSub(FAdd(resin, purchase_qty), resin_usage)

BlendedPrice(total_cost, resin, purchase_qty) ==
    IF Truthy(FAdd(resin, purchase_qty))
    THEN FDiv(total_cost, FAdd(resin, purchase_qty))
    ELSE PosZero

ClosingFgInv(fg, production, sales) == FSub(FAdd(fg, production), sales)

FgDays(closing_fg_inv, next_sales, prod_days) ==
    IF Truthy(next_sales)
    THEN FDiv(closing_fg_inv, FDiv(next_sales, FromInt(prod_days)))
    ELSE PosZero

ResinDays(closing_resin_inv, next_prod_est, usage_ratio, prod_days) ==
    IF Truthy(next_prod_est)
    THEN FDiv(closing_resin_inv,
              FDiv(FMul(next_prod_est, usage_ratio), FromInt(prod_days)))
    ELSE PosZero

(* The dict appended to results, lines 104-118; fg_days_1 and resin_days_1 *)
(* are round(fg_days, 1) and round(resin_days, 1).                         *)
ResultRow(month, sales, production, closing_fg_inv, fg_days_1, closing_resin_inv, resin_days_1, purchase_qty, cheapest_src, cheapest_price, blended) ==
    [Month |-> month,
     Sales |-> sales,
     Production |-> production,
     FGClose |-> closing_fg_inv,
     FGDays |-> fg_days_1,
     ResinClose |-> closing_resin_inv,
     ResinDays |-> resin_days_1,
     Purchase |-> purchase_qty,
     Source |-> cheapest_src,
     UnitPrice |-> cheapest_price,
     Blended |-> Round(blended, 100)]

----------------------------------------------------------------------------
(* The call as a state machine.                                            *)

NoError == [type |-> "", month |-> ""]
NoPlan == [returned |-> FALSE, rows |-> <<>>]

Init ==
    /\ df \in Schedules
    /\ params \in ParamSets
    /\ row = <<>>
    /\ pc = "loop"
    /\ idx = 0
    /\ fg_inv = params.fg_open
    /\ resin_inv = params.resin_open
    /\ blended_price = params.resin_blended_open
    /\ results = <<>>
    /\ plan = NoPlan
    /\ error = NoError

(* Line 65 with prod_days = 0: int / int raises ZeroDivisionError.         *)
RaiseZeroDivision ==
    /\ pc = "loop" /\ idx < Len(df)
    /\ params.prod_days = 0
    /\ pc' = "raised"
    /\ error' = [type |-> "ZeroDivisionError", month |-> ""]
    /\ UNCHANGED <<df, row, params, idx, fg_inv, resin_inv, blended_price,
                   results, plan>>

(* Variant: a row without prices ends the loop and the rows computed so    *)
(* far are returned.                                                       *)
RaiseMissingPrice_PartialPlan ==
    /\ pc = "loop" /\ idx < Len(df)
    /\ params.prod_days # 0
    /\ \E r \in [{Suppliers[i] : i \in 1..Len(Suppliers)} -> {NaN}] :
          row' = <<r>>
    /\ pc' = "returned"
    /\ plan' = [returned |-> TRUE, rows |-> results]
    /\ UNCHANGED <<df, params, idx, fg_inv, resin_inv, blended_price,
                   results, error>>

(* Lines 76-82: the row read has no price; the message names the month.    *)
(* With use_streamlit (and Streamlit installed) the message is shown by    *)
(* st.error and st.stop() ends the run; otherwise ValueError(msg) is       *)
(* raised.                                                                 *)
RaiseMissingPrice ==
    /\ pc = "loop" /\ idx < Len(df)
    /\ params.prod_days # 0
    /\ \E r \in PriceRows, use_streamlit \in BOOLEAN :
          /\ PriceCols(r) = <<>>
          /\ row' = <<r>>
          /\ error' = [type |-> IF use_streamlit THEN "StopException"
                                ELSE "ValueError",
                       month |-> Month(df, idx)]
    /\ pc' = "raised"
    /\ UNCHANGED <<df, params, idx, fg_inv, resin_inv, blended_price,
                   results, plan>>

(* One full iteration, lines 59-121, on a row with at least one price:     *)
(* each local of the loop body is bound in the order of its assignment.    *)
(* The locals that do not depend on the prices are computed before the     *)
(* price cells are read, and the two days of cover are rounded (lines 110  *)
(* and 112) where they are computed.                                       *)
LoopBody ==
    /\ pc = "loop" /\ idx < Len(df)
    /\ params.prod_days # 0
    /\ \E sales \in {Sales(df, idx)} :
       \E next_sales \in {NextSales(df, idx)} :
       \E fg_target_close \in
             {FgTargetClose(params.fg_target_days, params.prod_days,
                            next_sales)} :
       \E production \in {Production(sales, fg_target_close, fg_inv)} :
       \E resin_usage \in {ResinUsage(production, params.usage_ratio)} :
       \E next_prod_est \in {NextProdEst(df, idx, production)} :
       \E resin_target_close \in
             {ResinTargetClose(params.resin_target_days, params.prod_days,
                               next_prod_est, params.usage_ratio)} :
       \E purchase_qty \in
             {PurchaseQty(resin_usage, resin_target_close, resin_inv)} :
       \E closing_resin_inv \in
             {ClosingResinInv(resin_inv, purchase_qty, resin_usage)} :
       \E closing_fg_inv \in {ClosingFgInv(fg_inv, production, sales)} :
       \E fg_days \in {FgDays(closing_fg_inv, next_sales, params.prod_days)} :
       \E resin_days \in
             {ResinDays(closing_resin_inv, next_prod_est, params.usage_ratio,
                        params.prod_days)} :
       \E fg_days_1 \in {Round(fg_days, 10)} :
       \E resin_days_1 \in {Round(resin_days, 10)} :
       \E r \in PriceRows :
          /\ PriceCols(r) # <<>>
          /\ row' = <<r>>
          /\ \E cheapest_src \in {CheapestSrc(r)} :
             \E cheapest_price \in {CheapestPrice(r, cheapest_src)} :
             \E purchase_cost \in {PurchaseCost(purchase_qty, cheapest_price)} :
             \E total_cost \in
                   {TotalCost(resin_inv, blended_price, purchase_cost)} :
                /\ blended_price' =
                      BlendedPrice(total_cost, resin_inv, purchase_qty)
                /\ results' = Append(results,
                      ResultRow(Month(df, idx), sales, production,
                                closing_fg_inv, fg_days_1, closing_resin_inv,
                                resin_days_1, purchase_qty, cheapest_src,
                                cheapest_price, blended_price'))
          /\ fg_inv' = closing_fg_inv
          /\ resin_inv' = closing_resin_inv
    /\ idx' = idx + 1
    /\ UNCHANGED <<df, params, pc, plan, error>>

(* Lines 59 and 123: range(len(df)) is exhausted (at once when df has no   *)
(* rows) and the rows collected are returned.                              *)
Return ==
    /\ pc = "loop" /\ idx = Len(df)
    /\ pc' = "returned"
    /\ plan' = [returned |-> TRUE, rows |-> results]
    /\ UNCHANGED <<df, row, params, idx, fg_inv, resin_inv, blended_price,
                   results, error>>

Next == LoopBody \/ RaiseMissingPrice \/ RaiseZeroDivision \/ Return

Spec == Init /\ [][Next]_vars

----------------------------------------------------------------------------
(* Properties.  Each is stated on what the run leaves behind (the result   *)
(* rows, the carried state, the row read, the plan or the error), with the *)
(* arithmetic of the claim written out in the doubles of the program, not  *)
(* with the operators of the loop body.                                    *)

Periods == 1..Len(results)

LastRow == results[Len(results)]

(* Opening stocks of period k: the opening parameters for the first        *)
(* period, the previous period's closing values afterwards.                *)
FgOpenOf(k) == IF k = 1 THEN params.fg_open ELSE results[k - 1].FGClose
ResinOpenOf(k) == IF k = 1 THEN params.resin_open ELSE results[k - 1].ResinClose

(* C1: conservation.  In every period the closing finished-goods stock is  *)
(* the opening stock plus production minus sales, and the closing resin    *)
(* stock is the opening stock plus the purchase minus production times the *)
(* usage ratio, the opening stocks being the previous period's closing     *)
(* stocks; the stocks carried to the next period are the last closing      *)
(* stocks.                                                                 *)
C1_Conservation ==
    /\ \A k \in Periods :
          /\ results[k].FGClose =
                FSub(FAdd(FgOpenOf(k), results[k].Production), results[k].Sales)
          /\ results[k].ResinClose =
                FSub(FAdd(ResinOpenOf(k), results[k].Purchase),
                     FMul(results[k].Production, params.usage_ratio))
    /\ results # <<>> =>
          /\ fg_inv = LastRow.FGClose
          /\ resin_inv = LastRow.ResinClose

(* A second period that opened with the first period's closing stocks,     *)
(* produced, consumed resin and bought.                                    *)
C1_Witness ==
    /\ Len(results) = 2
    /\ results[1].FGClose # params.fg_open
    /\ results[1].ResinClose # params.resin_open
    /\ FLt(PosZero, results[2].Production)
    /\ FLt(PosZero, results[2].Purchase)
    /\ FLt(PosZero, params.usage_ratio)

(* The inputs the claims call valid: non-negative opening stocks, opening  *)
(* blended price and safety days, positive production days, and a usage    *)
(* ratio in [0, 1].  Sales in the schedules are never negative.            *)
ValidInputs ==
    /\ FLeq(PosZero, params.fg_open)
    /\ FLeq(PosZero, params.resin_open)
    /\ FLeq(PosZero, params.resin_blended_open)
    /\ params.fg_target_days >= 0
    /\ params.resin_target_days >= 0
    /\ params.prod_days > 0
    /\ FLeq(PosZero, params.usage_ratio)
    /\ FLeq(params.usage_ratio, FromInt(1))

(* C2: with a valid configuration, production and purchase quantity are    *)
(* never negative, in any period.                                          *)
C2_NonNegativeDecisions ==
    ValidInputs =>
        \A k \in Periods :
            /\ FLeq(PosZero, results[k].Production)
            /\ FLeq(PosZero, results[k].Purchase)

(* A period in which both clamps acted: the opening stocks exceeded what   *)
(* sales, usage and the targets called for.                                *)
C2_Witness ==
    /\ ValidInputs /\ ValidParams
    /\ \E k \in Periods :
          /\ results[k].Production = PosZero
          /\ results[k].Purchase = PosZero
          /\ FLt(results[k].Sales, FgOpenOf(k))
          /\ FLt(PosZero, results[k].FGClose)
          /\ FLt(PosZero, results[k].ResinClose)

(* The suppliers quoted in the price cells r.                              *)
SupplierSet == {Suppliers[i] : i \in 1..Len(Suppliers)}
Quoted(r) == {c \in SupplierSet : ~IsNaN(r[c])}
Position(c) == CHOOSE i \in 1..Len(Suppliers) : Suppliers[i] = c

(* C3: cheapest source.  The unit price of a result row is the minimum of  *)
(* the prices quoted in the row it was computed from, its source quotes    *)
(* that minimum, and every supplier before the source in the order Local,  *)
(* TPE, China/Korea that is quoted is strictly more expensive.             *)
C3_CheapestSource ==
    (pc = "loop" /\ results # <<>>) =>
        LET r == row[1]
            src == LastRow.Source
        IN  /\ src \in Quoted(r)
            /\ LastRow.UnitPrice = r[src]
            /\ \A c \in Quoted(r) : FLeq(LastRow.UnitPrice, r[c])
            /\ \A c \in Quoted(r) :
                  Position(c) < Position(src) => FLt(r[src], r[c])

(* Local is dearer, TPE and China/Korea tie at the minimum: TPE is taken.  *)
C3_Witness ==
    /\ pc = "loop" /\ results # <<>>
    /\ Quoted(row[1]) = SupplierSet
    /\ FLt(row[1]["TPE"], row[1]["Local"])
    /\ row[1]["TPE"] = row[1]["China/Korea"]
    /\ LastRow.Source = "TPE"

(* C4: a row without any price aborts the whole run.  Whenever the row    *)
(* just read quotes no supplier, the call has raised, the error carries    *)
(* the label of that row's period, and nothing is returned, whatever was   *)
(* computed for earlier periods and whether or not a purchase was due.     *)
C4_MissingPriceAborts ==
    (row # <<>> /\ Quoted(row[1]) = {}) =>
        /\ pc = "raised"
        /\ error.type \in {"ValueError", "StopException"}
        /\ idx < Len(df)
        /\ error.month = df[idx + 1].Month
        /\ plan = NoPlan

(* The second period has no price, after a first period that was computed; *)
(* with a zero usage ratio no purchase would have been due.                *)
C4_Witness ==
    /\ pc = "raised"
    /\ Len(results) = 1
    /\ error.month = Months[2]
    /\ Quoted(row[1]) = {}
    /\ IsZero(params.usage_ratio)
    /\ ValidInputs /\ ValidParams

MinOf(a, b) == IF FLt(b, a) THEN b ELSE a
MaxOf(a, b) == IF FLt(a, b) THEN b ELSE a

(* The step just appended a result row with a positive purchase.           *)
PurchaseStep ==
    /\ Len(results') = Len(results) + 1
    /\ FLt(PosZero, results'[Len(results')].Purchase)

BlendWithinBounds ==
    LET price == results'[Len(results')].UnitPrice
    IN  /\ FLeq(MinOf(blended_price, price), blended_price')
        /\ FLeq(blended_price', MaxOf(blended_price, price))

(* C5: blended-cost bounds.  In every period with a positive purchase the  *)
(* blended price carried forward lies between the smaller and the larger   *)
(* of the previous blended price and the purchase price, whatever resin    *)
(* inventory the period opened with.                                       *)
C5_BlendedCostBounds == [][PurchaseStep => BlendWithinBounds]_vars

(* C6: with a valid configuration no closing inventory is negative, and so *)
(* the resin inventory a period opens with is not negative either.         *)
C6_ClosingNonNegative ==
    ValidInputs =>
        /\ \A k \in Periods :
              /\ FLeq(PosZero, results[k].FGClose)
              /\ FLeq(PosZero, results[k].ResinClose)
        /\ FLeq(PosZero, resin_inv)
        /\ FLeq(PosZero, fg_inv)

(* The sales the target of period k is sized against: the next period's,   *)
(* or its own for the last period of the schedule.                         *)
NextSalesOf(k) == IF k < Len(df) THEN df[k + 1].Sales ELSE df[k].Sales

FgTargetOf(k) ==
    FMul(FDiv(FromInt(params.fg_target_days), FromInt(params.prod_days)),
         NextSalesOf(k))

(* The scenario of the claim: sales 800 then 850, opening stock 465, 15    *)
(* safety days, 25 production days, first period computed.                 *)
Scenario ==
    /\ results # <<>>
    /\ Len(df) >= 2
    /\ df[1].Sales = FromInt(800) /\ df[2].Sales = FromInt(850)
    /\ params.fg_open = FromInt(465)
    /\ params.fg_target_days = 15 /\ params.prod_days = 25

(* C7: the finished-goods target is hit exactly when production is needed. *)
(* In every period whose sales plus target are at least the opening stock, *)
(* production is sales plus target minus opening stock and the closing     *)
(* stock is the target, safety days / production days * next sales.  In    *)
(* the scenario the first period produces 845 and closes at 510.           *)
C7_FgTargetHit ==
    /\ \A k \in Periods :
          FLeq(FgOpenOf(k), FAdd(df[k].Sales, FgTargetOf(k))) =>
              /\ results[k].Production =
                    FSub(FAdd(df[k].Sales, FgTargetOf(k)), FgOpenOf(k))
              /\ FEq(results[k].FGClose, FgTargetOf(k))
    /\ Scenario => /\ results[1].Production = FromInt(845)
                   /\ results[1].FGClose = FromInt(510)

FAbs(x) == <<0, x[2], x[3], x[4]>>

(* 2^-50, eight units of rounding error of a double.                       *)
Tolerance == <<0, -102, 16777216, 0>>

(* C7, amended: in every period whose sales plus target are at least the   *)
(* opening stock, production is sales plus target minus opening stock as   *)
(* the doubles compute it, and the closing stock equals the target up to   *)
(* the rounding of the additions: they differ by at most 2^-50 times the   *)
(* sum of sales, target and opening stock.  In the scenario the first      *)
(* period produces exactly 845 and closes at exactly 510.                  *)
C7_FgTargetHitWithinRounding ==
    /\ \A k \in Periods :
          LET target == FgTargetOf(k)
              needed == FAdd(df[k].Sales, target)
          IN  FLeq(FgOpenOf(k), needed) =>
                /\ results[k].Production = FSub(needed, FgOpenOf(k))
                /\ FLeq(FAbs(FSub(results[k].FGClose, target)),
                        FMul(Tolerance, FAdd(needed, FAbs(FgOpenOf(k)))))
    /\ Scenario => /\ results[1].Production = FromInt(845)
                   /\ results[1].FGClose = FromInt(510)

(* A period that produced towards a target sized on the next period's      *)
(* different sales, and closed one rounding step away from it.             *)
C7_Witness ==
    \E k \in Periods :
        /\ k < Len(df)
        /\ df[k + 1].Sales # df[k].Sales
        /\ FLeq(FgOpenOf(k), FAdd(df[k].Sales, FgTargetOf(k)))
        /\ FLt(PosZero, results[k].Production)
        /\ ~FEq(results[k].FGClose, FgTargetOf(k))
        /\ IsFinite(results[k].FGClose)

(* Every number of a result row is a finite number.                        *)
WellDefined(res) ==
    /\ IsFinite(res.Production) /\ IsFinite(res.FGClose)
    /\ IsFinite(res.FGDays) /\ IsFinite(res.ResinClose)
    /\ IsFinite(res.ResinDays) /\ IsFinite(res.Purchase)
    /\ IsFinite(res.UnitPrice) /\ IsFinite(res.Blended)

(* C8: the recurrence is total.  With a valid configuration (a zero usage  *)
(* ratio and zero sales included) every period computed has finite values  *)
(* in all its fields, days of cover included, and the only error the run   *)
(* can end in is the missing-price error.                                  *)
C8_Total ==
    ValidInputs =>
        /\ \A k \in Periods : WellDefined(results[k])
        /\ pc = "raised" => error.type \in {"ValueError", "StopException"}
        /\ pc = "raised" => Quoted(row[1]) = {}

(* C9: configuration errors are rejected eagerly.  With zero production    *)
(* days or a negative quantity parameter no period is ever read or         *)
(* computed, nothing is returned, and the run ends in a configuration      *)
(* error.                                                                  *)
C9_ConfigRejectedEagerly ==
    ~ValidInputs =>
        /\ row = <<>>
        /\ results = <<>>
        /\ ~plan.returned
        /\ pc = "raised" => error.type = "ConfigurationError"

(* C10: output shape and order.  One result row per period read, in input  *)
(* order, the k-th carrying the label and sales of the k-th input row; a   *)
(* call that has returned has returned exactly those rows, one for each    *)
(* row of the schedule.                                                    *)
C10_ShapeAndOrder ==
    /\ Len(results) = idx
    /\ idx <= Len(df)
    /\ \A k \in Periods :
          /\ results[k].Month = df[k].Month
          /\ results[k].Sales = df[k].Sales
    /\ plan.returned = (pc = "returned")
    /\ pc = "returned" =>
          /\ idx = Len(df)
          /\ plan.rows = results
          /\ Len(plan.rows) = Len(df)

(* A returned plan of two rows with different sales.                       *)
C10_Witness ==
    /\ pc = "returned"
    /\ Len(plan.rows) = 2
    /\ plan.rows[1].Sales # plan.rows[2].Sales
    /\ plan.rows[1].Month = Months[1] /\ plan.rows[2].Month = Months[2]

====
